---- MODULE Spec2Model ----
(***************************************************************************)
(* Model of src/implot_extras.cpp: five C-linkage shims over ImPlot.       *)
(*                                                                         *)
(* The shims read or mutate the plot that the plotting library currently   *)
(* has open.  The library is an external collaborator: its state (plot     *)
(* limits, pixel geometry, draw list, clip-rect stack, user input) is the  *)
(* environment part of the state, and the library calls the shims make are *)
(* operators on that state.  The shims are the actions rfFun...            *)
(*                                                                         *)
(* Numbers.  Data-space and pixel-space coordinates are integers, chosen   *)
(* so that every data-to-pixel conversion is exact.  A normalized colour   *)
(* channel is a float k/4, written as its numerator k in 0..4; k/4 and     *)
(* (k/4)*255 are exactly representable in binary32, so the product the     *)
(* code computes is exact and the cast's truncation is an integer floor.   *)
(***************************************************************************)
EXTENDS Integers, Sequences, FiniteSets

VARIABLES
    plotActive,   \* TRUE between the library's BeginPlot and EndPlot
    plot,         \* the current plot: data-space limits, pixel origin, pixel size
    input,        \* this frame's user input: the held line id (0: none), mouse x
    drawList,     \* the frame's draw list: sequence of draw commands
    clipStack,    \* the draw list's clip-rect stack
    value,        \* caller-owned drag-line positions, one double per line id
    call,         \* the most recent shim call: its arguments, output slots, result
    nBands,       \* number of rfFunPlotBandX calls made in the current frame
    prevBand      \* TRUE when rfFunPlotBandX was called in the previous frame

vars == <<plotActive, plot, input, drawList, clipStack, value, call, nBands,
          prevBand>>

\* Bound on the number of draw commands issued in one frame.
MaxDraws == 2

(***************************************************************************)
(* Input domains                                                           *)
(***************************************************************************)

\* Plot contexts the library may have open.  The first is the example of
\* the specification: x:[0,10], y:[-5,5], origin (50,60), size (400,300).
PlotConfigs ==
    { [limits |-> [X |-> [Min |-> 0, Max |-> 10], Y |-> [Min |-> -5, Max |-> 5]],
       pos    |-> [x |-> 50, y |-> 60],
       size   |-> [x |-> 400, y |-> 300]],
      [limits |-> [X |-> [Min |-> 2, Max |-> 4], Y |-> [Min |-> 0, Max |-> 3]],
       pos    |-> [x |-> 10, y |-> 20],
       size   |-> [x |-> 100, y |-> 60]] }

\* Line ids the caller uses, and the data-space x positions it passes.
Ids == {1, 2}
XArgs == {2, 4}
MouseXs == {2, 4}

\* Normalized colours (numerators over 4) and line thicknesses.
Colours == { <<1, 2, 3, 4>>, <<4, 0, 2, 1>> }
LineColours == { <<4, 3, 0, 2>> }
Thicknesses == {1, 2}

\* The clip rectangle of the window the plot lives in.
WindowClip == [Min |-> [x |-> 0, y |-> 0], Max |-> [x |-> 300, y |-> 200]]

NoCall == [op |-> "none"]

(***************************************************************************)
(* The plotting library, as the shims use it                               *)
(***************************************************************************)

\* ImPlot::GetPlotLimits, GetPlotPos, GetPlotSize: snapshots of the open plot.
GetPlotLimits == plot.limits
GetPlotPos == plot.pos
GetPlotSize == plot.size

\* ImPlot::PlotToPixels on linear axes: x grows to the right from the plot's
\* left edge, y grows upward from the plot's bottom edge (pixel y grows down).
PlotToPixels(x, y) ==
    LET lim == plot.limits
    IN  [x |-> plot.pos.x
                 + ((x - lim.X.Min) * plot.size.x) \div (lim.X.Max - lim.X.Min),
         y |-> plot.pos.y + plot.size.y
                 - ((y - lim.Y.Min) * plot.size.y) \div (lim.Y.Max - lim.Y.Min)]

\* The plot's interior in pixel space.
PlotRect ==
    [Min |-> plot.pos,
     Max |-> [x |-> plot.pos.x + plot.size.x, y |-> plot.pos.y + plot.size.y]]

Max2(a, b) == IF a >= b THEN a ELSE b
Min2(a, b) == IF a <= b THEN a ELSE b

\* Intersection of two pixel rectangles (ImGui's PushClipRect with
\* intersect_with_current_clip_rect = true).
ClipWith(cur, r) ==
    [Min |-> [x |-> Max2(cur.Min.x, r.Min.x), y |-> Max2(cur.Min.y, r.Min.y)],
     Max |-> [x |-> Min2(cur.Max.x, r.Max.x), y |-> Min2(cur.Max.y, r.Max.y)]]

\* ImPlot::PushPlotClipRect / PopPlotClipRect on a clip-rect stack.
PushPlotClipRect(stack) == Append(stack, ClipWith(stack[Len(stack)], PlotRect))
PopPlotClipRect(stack) == SubSeq(stack, 1, Len(stack) - 1)

\* ImDrawList::AddRectFilled / AddLine: one command appended to the draw
\* list, carrying the clip rectangle in force when it is issued.
AddRectFilled(dl, stack, pmin, pmax, col) ==
    Append(dl, [kind |-> "rect", Min |-> pmin, Max |-> pmax, col |-> col,
                clip |-> stack[Len(stack)]])
AddLine(dl, stack, px, col, thickness) ==
    Append(dl, [kind |-> "line", x |-> px, col |-> col, thickness |-> thickness,
                clip |-> stack[Len(stack)]])

\* IM_COL32(R,G,B,A): the four 8-bit channels of a packed colour.
IM_COL32(R, G, B, A) == [R |-> R, G |-> G, B |-> B, A |-> A]

\* ImVec4(x, y, z, w)
ImVec4(x, y, z, w) == [x |-> x, y |-> y, z |-> z, w |-> w]

\* ImPlot::DragLineX(id, value, col, thickness).  In the library:
\*     bool modified = false;
\*     if (held && ImGui::IsMouseDragging(0)) {
\*         *value = ImPlot::GetPlotMousePos().x;  modified = true; }
\*     PushPlotClipRect(); ...AddLine(...)...; PopPlotClipRect();
\*     return modified;
\* so the result reports that the line with this id is being dragged, and
\* the value becomes the mouse's data-space x, which may be the x it already
\* had.  input.held is the id of the line held and dragged in this frame.
\* The line's segments are drawn as one "line" command at the value's pixel x.
DragLineX(id, v, col, thickness) ==
    LET modified == input.held = id
        nv == IF modified THEN input.mouse ELSE v
        s1 == PushPlotClipRect(clipStack)
        dl == AddLine(drawList, s1, PlotToPixels(nv, 0).x, col, thickness)
    IN  [value |-> nv, ret |-> modified, drawList |-> dl,
         clipStack |-> PopPlotClipRect(s1)]

(***************************************************************************)
(* The shims                                                               *)
(*                                                                         *)
(* Every shim requires an open plot: a call with no plot open is outside   *)
(* the library's contract and is not modelled.  The two drawing shims are  *)
(* capped at MaxDraws draw commands per frame to keep the model finite.    *)
(***************************************************************************)

\* Variant of ToU8 that rounds to nearest instead of truncating.
ToU8Rounded(k) == (2 * k * 255 + 4) \div 8

\* (unsigned char)(c * 255) for a channel c = k/4: the float product is
\* exact, and the conversion to an integer type truncates toward zero.
ToU8(k) == (k * 255) \div 4

\* Variant of rfFunGetPlotLimits that exchanges the x-axis minimum and maximum.
rfFunGetPlotLimitsSwapped ==
    /\ plotActive
    /\ LET limits == GetPlotLimits
       IN  call' = [op |-> "GetPlotLimits",
                    x_min |-> limits.X.Max, x_max |-> limits.X.Min,
                    y_min |-> limits.Y.Min, y_max |-> limits.Y.Max]
    /\ UNCHANGED <<plotActive, plot, input, drawList, clipStack, value, nBands,
                 prevBand>>

rfFunGetPlotLimits ==
    /\ plotActive
    /\ LET limits == GetPlotLimits
       IN  call' = [op |-> "GetPlotLimits",
                    x_min |-> limits.X.Min, x_max |-> limits.X.Max,
                    y_min |-> limits.Y.Min, y_max |-> limits.Y.Max]
    /\ UNCHANGED <<plotActive, plot, input, drawList, clipStack, value, nBands,
                 prevBand>>

\* Variant of rfFunGetPlotPos that transposes the two components.
rfFunGetPlotPosTransposed ==
    /\ plotActive
    /\ LET pos == GetPlotPos
       IN  call' = [op |-> "GetPlotPos", x |-> pos.y, y |-> pos.x]
    /\ UNCHANGED <<plotActive, plot, input, drawList, clipStack, value, nBands,
                 prevBand>>

rfFunGetPlotPos ==
    /\ plotActive
    /\ LET pos == GetPlotPos
       IN  call' = [op |-> "GetPlotPos", x |-> pos.x, y |-> pos.y]
    /\ UNCHANGED <<plotActive, plot, input, drawList, clipStack, value, nBands,
                 prevBand>>

\* Variant of rfFunGetPlotSize that leaves the plot clip rectangle pushed.
rfFunGetPlotSizePushing ==
    /\ plotActive
    /\ LET size == GetPlotSize
       IN  call' = [op |-> "GetPlotSize", w |-> size.x, h |-> size.y]
    /\ clipStack' = PushPlotClipRect(clipStack)
    /\ UNCHANGED <<plotActive, plot, input, drawList, value, nBands, prevBand>>

rfFunGetPlotSize ==
    /\ plotActive
    /\ LET size == GetPlotSize
       IN  call' = [op |-> "GetPlotSize", w |-> size.x, h |-> size.y]
    /\ UNCHANGED <<plotActive, plot, input, drawList, clipStack, value, nBands,
                 prevBand>>

\* Variants of rfFunDragLineX: "retTrue" ignores the library's result and
\* returns true; "copy" hands the library a copy of the caller's double.
DragLineXVariant(id, r, g, b, a, thickness, v) ==
    /\ plotActive
    /\ Len(drawList) < MaxDraws
    /\ LET col == ImVec4(r, g, b, a)
           res == DragLineX(id, value[id], col, thickness)
       IN  /\ value' = IF v = "copy" THEN value
                       ELSE [value EXCEPT ![id] = res.value]
           /\ drawList' = res.drawList
           /\ clipStack' = res.clipStack
           /\ call' = [op |-> "DragLineX", id |-> id, col |-> <<r, g, b, a>>,
                       thickness |-> thickness, before |-> value[id],
                       ret |-> IF v = "retTrue" THEN TRUE ELSE res.ret]
    /\ UNCHANGED <<plotActive, plot, input, nBands, prevBand>>

rfFunDragLineXRetTrue(id, r, g, b, a, thickness) ==
    DragLineXVariant(id, r, g, b, a, thickness, "retTrue")

rfFunDragLineXCopy(id, r, g, b, a, thickness) ==
    DragLineXVariant(id, r, g, b, a, thickness, "copy")

rfFunDragLineX(id, r, g, b, a, thickness) ==
    /\ plotActive
    /\ Len(drawList) < MaxDraws
    /\ LET col == ImVec4(r, g, b, a)
           res == DragLineX(id, value[id], col, thickness)
       IN  /\ value' = [value EXCEPT ![id] = res.value]
           /\ drawList' = res.drawList
           /\ clipStack' = res.clipStack
           /\ call' = [op |-> "DragLineX", id |-> id, col |-> <<r, g, b, a>>,
                       thickness |-> thickness, before |-> value[id],
                       ret |-> res.ret]
    /\ UNCHANGED <<plotActive, plot, input, nBands, prevBand>>

\* Variants of rfFunPlotBandX: "swapY" pairs x_min with Y.Min and x_max with
\* Y.Max; "noPop" omits PopPlotClipRect; "twice" issues the rectangle twice;
\* "sorted" orders the two corners before drawing.
PlotBandXVariant(x_min, x_max, r, g, b, a, v) ==
    /\ plotActive
    /\ Len(drawList) < MaxDraws
    /\ LET limits == GetPlotLimits
           p1 == IF v = "swapY" THEN PlotToPixels(x_min, limits.Y.Min)
                 ELSE PlotToPixels(x_min, limits.Y.Max)
           p2 == IF v = "swapY" THEN PlotToPixels(x_max, limits.Y.Max)
                 ELSE PlotToPixels(x_max, limits.Y.Min)
           rmin == IF v = "sorted"
                   THEN [x |-> Min2(p1.x, p2.x), y |-> Min2(p1.y, p2.y)] ELSE p1
           rmax == IF v = "sorted"
                   THEN [x |-> Max2(p1.x, p2.x), y |-> Max2(p1.y, p2.y)] ELSE p2
           col == IM_COL32(ToU8(r), ToU8(g), ToU8(b), ToU8(a))
           s1 == PushPlotClipRect(clipStack)
           d1 == AddRectFilled(drawList, s1, rmin, rmax, col)
           dl == IF v = "twice" THEN AddRectFilled(d1, s1, rmin, rmax, col)
                 ELSE d1
       IN  /\ drawList' = dl
           /\ clipStack' = IF v = "noPop" THEN s1 ELSE PopPlotClipRect(s1)
           /\ call' = [op |-> "PlotBandX", x_min |-> x_min, x_max |-> x_max,
                       col |-> <<r, g, b, a>>, dl0 |-> drawList,
                       clip0 |-> clipStack]
    /\ nBands' = nBands + 1
    /\ UNCHANGED <<plotActive, plot, input, value, prevBand>>

rfFunPlotBandXSwapY(x_min, x_max, r, g, b, a) ==
    PlotBandXVariant(x_min, x_max, r, g, b, a, "swapY")

rfFunPlotBandXNoPop(x_min, x_max, r, g, b, a) ==
    PlotBandXVariant(x_min, x_max, r, g, b, a, "noPop")

rfFunPlotBandXTwice(x_min, x_max, r, g, b, a) ==
    PlotBandXVariant(x_min, x_max, r, g, b, a, "twice")

rfFunPlotBandXSorted(x_min, x_max, r, g, b, a) ==
    PlotBandXVariant(x_min, x_max, r, g, b, a, "sorted")

rfFunPlotBandX(x_min, x_max, r, g, b, a) ==
    /\ plotActive
    /\ Len(drawList) < MaxDraws
    /\ LET limits == GetPlotLimits
           rmin == PlotToPixels(x_min, limits.Y.Max)
           rmax == PlotToPixels(x_max, limits.Y.Min)
           s1 == PushPlotClipRect(clipStack)
           dl == AddRectFilled(drawList, s1, rmin, rmax,
                               IM_COL32(ToU8(r), ToU8(g), ToU8(b), ToU8(a)))
       IN  /\ drawList' = dl
           /\ clipStack' = PopPlotClipRect(s1)
           /\ call' = [op |-> "PlotBandX", x_min |-> x_min, x_max |-> x_max,
                       col |-> <<r, g, b, a>>, dl0 |-> drawList,
                       clip0 |-> clipStack]
    /\ nBands' = nBands + 1
    /\ UNCHANGED <<plotActive, plot, input, value, prevBand>>

(***************************************************************************)
(* The frame loop that drives the library                                  *)
(***************************************************************************)

\* A new frame begins and its plot is opened: the library recomputes the
\* plot's limits and geometry, samples the user's input, and starts an empty
\* draw list whose clip stack holds the window's clip rectangle.
BeginPlot ==
    /\ ~plotActive
    /\ plotActive' = TRUE
    /\ plot' \in PlotConfigs
    /\ input' \in [held : Ids \cup {0}, mouse : MouseXs]
    /\ drawList' = <<>>
    /\ clipStack' = <<WindowClip>>
    /\ call' = NoCall
    /\ nBands' = 0
    /\ prevBand' = (nBands > 0)
    /\ UNCHANGED value

\* The plot is closed; the frame's draw list stays as issued until the next
\* frame begins.
EndPlot ==
    /\ plotActive
    /\ plotActive' = FALSE
    /\ UNCHANGED <<plot, input, drawList, clipStack, value, call, nBands,
                 prevBand>>

Init ==
    /\ plotActive = FALSE
    /\ plot \in PlotConfigs
    /\ input = [held |-> 0, mouse |-> 2]
    /\ drawList = <<>>
    /\ clipStack = <<WindowClip>>
    /\ value \in [Ids -> XArgs]
    /\ call = NoCall
    /\ nBands = 0
    /\ prevBand = FALSE

CallDragLineX ==
    \E id \in Ids, c \in LineColours, t \in Thicknesses :
        rfFunDragLineX(id, c[1], c[2], c[3], c[4], t)

CallPlotBandX ==
    \E x_min \in XArgs, x_max \in XArgs, c \in Colours :
        rfFunPlotBandX(x_min, x_max, c[1], c[2], c[3], c[4])

Next ==
    \/ BeginPlot
    \/ EndPlot
    \/ rfFunGetPlotLimits
    \/ rfFunGetPlotPos
    \/ rfFunGetPlotSize
    \/ CallDragLineX
    \/ CallPlotBandX

Spec == Init /\ [][Next]_vars

(***************************************************************************)
(* Properties                                                              *)
(***************************************************************************)

LastCmd == drawList[Len(drawList)]
NumRects(dl) == Cardinality({i \in 1..Len(dl) : dl[i].kind = "rect"})
IsBandCall == call.op = "PlotBandX"
IsDragCall == call.op = "DragLineX"

\* C1: after rfFunGetPlotLimits the four output slots hold the plot's
\* data-space bounds, in the order x_min, x_max, y_min, y_max.
C1_LimitsReported ==
    call.op = "GetPlotLimits" =>
        /\ call.x_min = plot.limits.X.Min
        /\ call.x_max = plot.limits.X.Max
        /\ call.y_min = plot.limits.Y.Min
        /\ call.y_max = plot.limits.Y.Max

\* The specification's example: x:[0,10], y:[-5,5] is reported as 0, 10, -5, 5.
C1_Witness ==
    /\ call.op = "GetPlotLimits"
    /\ plot.limits = [X |-> [Min |-> 0, Max |-> 10], Y |-> [Min |-> -5, Max |-> 5]]
    /\ <<call.x_min, call.x_max, call.y_min, call.y_max>> = <<0, 10, -5, 5>>

\* C2: rfFunGetPlotPos writes the plot's pixel origin into (x, y) and
\* rfFunGetPlotSize writes its pixel size into (w, h), untransposed.
C2_PosSizeReported ==
    /\ call.op = "GetPlotPos" => call.x = plot.pos.x /\ call.y = plot.pos.y
    /\ call.op = "GetPlotSize" => call.w = plot.size.x /\ call.h = plot.size.y

\* The specification's example: origin (50,60), size (400,300).
C2_Witness ==
    /\ plot.pos = [x |-> 50, y |-> 60]
    /\ plot.size = [x |-> 400, y |-> 300]
    /\ \/ call.op = "GetPlotPos" /\ <<call.x, call.y>> = <<50, 60>>
       \/ call.op = "GetPlotSize" /\ <<call.w, call.h>> = <<400, 300>>

\* C3: rfFunDragLineX in a frame where the user does not hold the line
\* leaves the caller's value as it was and returns false.
C3_NoInteraction ==
    (IsDragCall /\ input.held # call.id) =>
        /\ value[call.id] = call.before
        /\ call.ret = FALSE

C3_Witness ==
    /\ IsDragCall
    /\ input.held # call.id
    /\ input.held # 0
    /\ call.ret = FALSE

C5_OneRectFullHeight ==
    IsBandCall =>
        /\ Len(drawList) = Len(call.dl0) + 1
        /\ SubSeq(drawList, 1, Len(call.dl0)) = call.dl0
        /\ LastCmd.kind = "rect"
        /\ (LastCmd.Min.x - plot.pos.x) * (plot.limits.X.Max - plot.limits.X.Min)
               = (call.x_min - plot.limits.X.Min) * plot.size.x
        /\ (LastCmd.Max.x - plot.pos.x) * (plot.limits.X.Max - plot.limits.X.Min)
               = (call.x_max - plot.limits.X.Min) * plot.size.x
        /\ LastCmd.Min.y = plot.pos.y
        /\ LastCmd.Max.y = plot.pos.y + plot.size.y

\* The specification's example: x in [2,4] on x:[0,10], y:[-5,5] at origin
\* (50,60), size (400,300) is the pixel rectangle (130,60)-(210,360).
C5_Witness ==
    /\ IsBandCall
    /\ call.x_min = 2 /\ call.x_max = 4
    /\ plot.limits.Y = [Min |-> -5, Max |-> 5]
    /\ Len(call.dl0) = 1
    /\ LastCmd.Min = [x |-> 130, y |-> 60]
    /\ LastCmd.Max = [x |-> 210, y |-> 360]

\* round(255 * k/4), half away from zero
Round255(k) == IF (k * 255) % 4 >= 2 THEN (k * 255) \div 4 + 1 ELSE (k * 255) \div 4

\* C6 as stated: the rectangle's channels are round(255*r), round(255*g),
\* round(255*b), round(255*a).
C6_ChannelsRounded ==
    IsBandCall =>
        LastCmd.col = [R |-> Round255(call.col[1]), G |-> Round255(call.col[2]),
                       B |-> Round255(call.col[3]), A |-> Round255(call.col[4])]

\* n = floor(255 * k/4)
IsFloor255(n, k) == 4 * n <= 255 * k /\ 255 * k < 4 * (n + 1)

\* C6 amended: the rectangle's channels are 255*r, 255*g, 255*b, 255*a
\* truncated to an integer (rounded down), in the order red, green, blue, alpha.
C6_ChannelsTruncated ==
    IsBandCall =>
        /\ IsFloor255(LastCmd.col.R, call.col[1])
        /\ IsFloor255(LastCmd.col.G, call.col[2])
        /\ IsFloor255(LastCmd.col.B, call.col[3])
        /\ IsFloor255(LastCmd.col.A, call.col[4])

\* (0.25, 0.5, 0.75, 1.0) is drawn as (63, 127, 191, 255).
C6_Witness ==
    /\ IsBandCall
    /\ call.col = <<1, 2, 3, 4>>
    /\ LastCmd.col = [R |-> 63, G |-> 127, B |-> 191, A |-> 255]

\* C7: the rectangle is issued under a clip rectangle that lies inside the
\* plot's interior (the plot rectangle cut to the enclosing clip), and the
\* clip-rect stack after any sequence of band calls is what it was before.
C7_ClipBalanced ==
    /\ clipStack = <<WindowClip>>
    /\ IsBandCall =>
           /\ clipStack = call.clip0
           /\ LastCmd.clip = ClipWith(WindowClip, PlotRect)
           /\ LastCmd.clip.Min.x >= plot.pos.x
           /\ LastCmd.clip.Min.y >= plot.pos.y
           /\ LastCmd.clip.Max.x <= plot.pos.x + plot.size.x
           /\ LastCmd.clip.Max.y <= plot.pos.y + plot.size.y

\* Two band calls in one frame, the second clipped to the visible part of
\* the plot.
C7_Witness ==
    /\ IsBandCall
    /\ nBands = 2
    /\ LastCmd.clip # WindowClip
    /\ LastCmd.clip # PlotRect
    /\ clipStack = <<WindowClip>>

\* C8: a frame's draw list holds exactly as many band rectangles as there
\* were rfFunPlotBandX calls in that frame; in particular none without a call
\* in the same frame, whatever was drawn in earlier frames.
C8_BandsAreFrameLocal ==
    NumRects(drawList) = nBands

\* A frame that follows a frame with a band, in which the shims were used
\* but no band was drawn.
C8_Witness ==
    /\ prevBand
    /\ plotActive
    /\ nBands = 0
    /\ IsDragCall
    /\ Len(drawList) = 1
    /\ NumRects(drawList) = 0

QueryStep == rfFunGetPlotLimits \/ rfFunGetPlotPos \/ rfFunGetPlotSize

\* C9: a step of rfFunGetPlotLimits, rfFunGetPlotPos or rfFunGetPlotSize
\* changes nothing but the caller's output slots: the plot context, the draw
\* list, the clip-rect stack and every drag-line value stay as they were.
C9_QueriesPure ==
    [][QueryStep =>
          UNCHANGED <<plotActive, plot, input, drawList, clipStack, value>>]_vars

\* A query answered in a frame that already has draw commands.
C9_Witness ==
    /\ call.op \in {"GetPlotLimits", "GetPlotPos", "GetPlotSize"}
    /\ Len(drawList) = 2
    /\ nBands = 1
    /\ clipStack = <<WindowClip>>

\* C10: the rectangle's first corner is the projection of (x_min, yMax) and
\* its second corner the projection of (x_max, yMin), in that order: a
\* top-left / bottom-right pair when x_min <= x_max, and inverted in x when
\* x_min > x_max.
C10_CornersAsPassed ==
    IsBandCall =>
        /\ LastCmd.Min = PlotToPixels(call.x_min, plot.limits.Y.Max)
        /\ LastCmd.Max = PlotToPixels(call.x_max, plot.limits.Y.Min)
        /\ call.x_min <= call.x_max =>
               LastCmd.Min.x <= LastCmd.Max.x /\ LastCmd.Min.y <= LastCmd.Max.y
        /\ call.x_min > call.x_max => LastCmd.Min.x > LastCmd.Max.x

C10_Witness ==
    /\ IsBandCall
    /\ call.x_min > call.x_max
    /\ LastCmd.Min.x > LastCmd.Max.x
    /\ LastCmd.Min.y < LastCmd.Max.y

====
